---- MODULE Spec2Model ----
(***************************************************************************)
(* A model of the concurrent crawl engine of the web-crawler repository.   *)
(* Two implementations of the engine live in the repository and both are   *)
(* modelled; the variable impl says which one a run executes:              *)
(*   "pkg"  - url_extractor/crawler.py + http.py + extractor.py            *)
(*   "main" - main.py (stand-alone, lock guarded CrawlingState)            *)
(* URLs are strings, modelled as sequences of one-character strings, so    *)
(* that urlparse, urljoin, endswith and the canonical form are computed.   *)
(* Steps are the stretches of code between two suspension points of the    *)
(* asyncio event loop: a blocking queue.get(), an HTTP request in flight,  *)
(* asyncio.sleep(), queue.join() and gather().  put() on the unbounded     *)
(* queue and acquire() of the never-contended lock do not suspend.         *)
(***************************************************************************)
EXTENDS Integers, Sequences, FiniteSets, TLC

VARIABLES
    impl,                \* which implementation runs: "pkg" or "main"
    start_url,           \* crawl_async argument
    max_pages,           \* crawl_async argument, -1 = unlimited
    num_workers,         \* crawl_async argument
    queue,               \* asyncio.Queue contents (FIFO), URL strings and None
    unfinished,          \* asyncio.Queue._unfinished_tasks
    visited,             \* visited / state.visited
    js_links,            \* js_links (pkg only; stays empty in main)
    pages_crawled_count, \* pages_crawled_count[0] / state.pages_crawled_count
    delay,               \* the nonlocal delay of the retry decorator (pkg)
    pc,                  \* per worker: "get", "fetch", "sleep", "done", "crashed"
    current_url,         \* per worker: the item being processed
    attempt,             \* per worker: index of the underlying request of this fetch
    waits,               \* per worker: the sleeps of this fetch, in order
    ret,                 \* per worker: how this fetch returned: "ok", "None", "raised"
    opc,                 \* crawl_async: "join", "gather", "done"
    fetchCalls,          \* URL -> number of get_page_content_async calls on it
    fetchedOK,           \* URLs whose fetch returned a body
    failures             \* number of failed underlying requests so far

vars == <<impl, start_url, max_pages, num_workers, queue, unfinished, visited,
          js_links, pages_crawled_count, delay, pc, current_url, attempt,
          waits, ret, opc, fetchCalls, fetchedOK, failures>>

(***************************************************************************)
(* Bounds of the model.                                                    *)
(***************************************************************************)
MaxWorkers == 2
MaxPages == 2
MaxFailures == 5

(***************************************************************************)
(* Strings.                                                                *)
(***************************************************************************)
None == <<"None">>

StartsWith(s, pre) ==
    Len(s) >= Len(pre) /\ SubSeq(s, 1, Len(pre)) = pre

EndsWith(s, suf) ==
    Len(s) >= Len(suf) /\ SubSeq(s, Len(s) - Len(suf) + 1, Len(s)) = suf

\* least index of a character of cs in s, Len(s) + 1 when there is none
Find(s, cs) ==
    IF \E i \in 1..Len(s) : s[i] \in cs
    THEN CHOOSE i \in 1..Len(s) : s[i] \in cs /\ \A j \in 1..(i - 1) : s[j] \notin cs
    ELSE Len(s) + 1

\* greatest index of a character of cs in s, 0 when there is none
FindLast(s, cs) ==
    IF \E i \in 1..Len(s) : s[i] \in cs
    THEN CHOOSE i \in 1..Len(s) : s[i] \in cs /\ \A j \in (i + 1)..Len(s) : s[j] \notin cs
    ELSE 0

Contains(s, sub) ==
    \E i \in 1..(Len(s) - Len(sub) + 1) : SubSeq(s, i, i + Len(sub) - 1) = sub

Before(s, i) == SubSeq(s, 1, i - 1)
After(s, i) == SubSeq(s, i + 1, Len(s))

(***************************************************************************)
(* urllib.parse as the sources use it.  A parsed URL is a record of its    *)
(* scheme, netloc, path, query and fragment.                               *)
(***************************************************************************)
Colon == {":"}
Delims == {"/", "?", "#"}

\* urlsplit, last step: "?query" of what precedes the fragment
split_query(scheme, netloc, rest, fragment) ==
    [scheme |-> scheme, netloc |-> netloc,
     path |-> Before(rest, Find(rest, {"?"})),
     query |-> After(rest, Find(rest, {"?"})), fragment |-> fragment]

\* urlsplit: "#fragment"
split_fragment(scheme, netloc, rest) ==
    split_query(scheme, netloc, Before(rest, Find(rest, {"#"})),
                After(rest, Find(rest, {"#"})))

\* urlsplit: the netloc after "//", up to the next of "/?#"
split_netloc(scheme, rest) ==
    IF StartsWith(rest, <<"/", "/">>)
    THEN split_fragment(scheme,
                        Before(After(rest, 2), Find(After(rest, 2), Delims)),
                        SubSeq(rest, 2 + Find(After(rest, 2), Delims), Len(rest)))
    ELSE split_fragment(scheme, <<>>, rest)

\* urlsplit: the scheme up to the first ":" when no delimiter precedes it
urlparse(url) ==
    IF Find(url, Colon) > 1 /\ Find(url, Colon) <= Len(url)
       /\ Find(url, Delims) > Find(url, Colon)
    THEN split_netloc(Before(url, Find(url, Colon)), After(url, Find(url, Colon)))
    ELSE split_netloc(<<>>, url)

\* urlunsplit
unparse_path(p) ==
    IF p.netloc # <<>> /\ p.path # <<>> /\ p.path[1] # "/"
    THEN <<"/">> \o p.path ELSE p.path

urlunparse(p) ==
    (IF p.scheme # <<>> THEN p.scheme \o <<":">> ELSE <<>>)
    \o (IF p.netloc # <<>> THEN <<"/", "/">> \o p.netloc ELSE <<>>)
    \o unparse_path(p)
    \o (IF p.query # <<>> THEN <<"?">> \o p.query ELSE <<>>)
    \o (IF p.fragment # <<>> THEN <<"#">> \o p.fragment ELSE <<>>)

\* urljoin, the path of the result: an absolute path is kept, a relative
\* path replaces the last segment of the base path
join_path(bpath, path) ==
    IF StartsWith(path, <<"/">>) THEN path
    ELSE IF SubSeq(bpath, 1, FindLast(bpath, {"/"})) \o path = <<>> THEN <<"/">>
    ELSE SubSeq(bpath, 1, FindLast(bpath, {"/"})) \o path

\* urljoin on the parsed base b and the parsed reference u
join_parsed(b, u, url) ==
    IF u.scheme # <<>> /\ u.scheme # b.scheme THEN url
    ELSE IF u.netloc # <<>>
         THEN urlunparse([u EXCEPT !.scheme = b.scheme])
    ELSE IF u.path = <<>>
         THEN urlunparse([scheme |-> b.scheme, netloc |-> b.netloc,
                          path |-> b.path,
                          query |-> IF u.query # <<>> THEN u.query ELSE b.query,
                          fragment |-> u.fragment])
    ELSE urlunparse([scheme |-> b.scheme, netloc |-> b.netloc,
                     path |-> join_path(b.path, u.path),
                     query |-> u.query, fragment |-> u.fragment])

\* urljoin for references without "." and ".." segments
urljoin(base, url) ==
    IF base = <<>> THEN url
    ELSE IF url = <<>> THEN base
    ELSE join_parsed(urlparse(base), urlparse(url), url)

\* parsed_link.scheme + "://" + parsed_link.netloc + parsed_link.path
canonical(parsed_link) ==
    parsed_link.scheme \o <<":", "/", "/">> \o parsed_link.netloc \o parsed_link.path

absolute_link(base_url, href) == canonical(urlparse(urljoin(base_url, href)))

\* the arguments of endswith exchanged
matchsubdomain_swapped(base_netloc, link_netloc) == EndsWith(base_netloc, link_netloc)

\* link_netloc.endswith(base_netloc)
matchsubdomain(base_netloc, link_netloc) == EndsWith(link_netloc, base_netloc)

JsSuffix == <<".", "j", "s">>
Html == <<"h", "t", "m", "l">>

(***************************************************************************)
(* Link extraction.  A document body is a record of its anchor hrefs,      *)
(* its script src attributes and the string literals of its inline         *)
(* scripts (each with the call it is the sole argument of, if any).        *)
(***************************************************************************)
Http == <<"h", "t", "t", "p">>
SchemeSep == <<":", "/", "/">>

\* the three regular expressions of extract_links_from_script
script_matches(lit) ==
    \/ lit.callee = "fetch" /\ lit.text # <<>>
    \/ lit.callee = "axios.get" /\ lit.text # <<>>
    \/ StartsWith(lit.text, Http \o SchemeSep) /\ Len(lit.text) > 7
    \/ StartsWith(lit.text, Http \o <<"s">> \o SchemeSep) /\ Len(lit.text) > 8
    \/ StartsWith(lit.text, <<"/">>) /\ Len(lit.text) > 1

extract_links_from_script(script_content, base_url) ==
    { absolute_link(base_url, lit.text) : lit \in { l \in script_content : script_matches(l) } }

\* url_extractor/extractor.py: anchors and script src attributes
extract_links_pkg(html_content, base_url) ==
    { absolute_link(base_url, h) : h \in html_content.a_href }
    \cup { absolute_link(base_url, s) : s \in html_content.script_src }

\* main.py: anchors and the literals of inline scripts
extract_links_main(html_content, base_url) ==
    { absolute_link(base_url, h) : h \in html_content.a_href }
    \cup extract_links_from_script(html_content.script_text, base_url)

extract_links_from_html(variant, html_content, base_url) ==
    IF variant = "pkg" THEN extract_links_pkg(html_content, base_url)
    ELSE extract_links_main(html_content, base_url)

(***************************************************************************)
(* The web site the runs crawl: the base host a.c, a host xa.c that only   *)
(* shares its suffix, and the foreign host o.d.                            *)
(***************************************************************************)
HostA == <<"a", ".", "c">>
HostX == <<"x", "a", ".", "c">>
HostO == <<"o", ".", "d">>

Url(host, rest) == Http \o SchemeSep \o host \o rest

TextHtml == <<"t", "e", "x", "t", "/", "h", "t", "m", "l">>
TextPlain == <<"t", "e", "x", "t", "/", "p", "l", "a", "i", "n">>

Body(a, s, t) == [empty |-> FALSE, a_href |-> a, script_src |-> s, script_text |-> t]
EmptyBody == [empty |-> TRUE, a_href |-> {}, script_src |-> {}, script_text |-> {}]

UrlHome == Url(HostA, <<"/">>)
UrlP == Url(HostA, <<"/", "p">>)
UrlD == Url(HostA, <<"/", "d">>)
UrlJs == Url(HostA, <<"/", "s", ".", "j", "s">>)
UrlX == Url(HostX, <<"/">>)
UrlO == Url(HostO, <<"/">>)

\* what the server answers to a request that succeeds, by host and path
Page(netloc, path) ==
    CASE Url(netloc, path) = UrlHome ->
           [content_type |-> TextHtml,
            content |-> Body({<<"/", "p", "?", "x">>, UrlO, UrlX},
                             {<<"/", "s", ".", "j", "s">>}, {})]
      [] Url(netloc, path) = UrlP ->
           [content_type |-> TextHtml,
            content |-> Body({<<"/", "p", "#", "t">>,
                              <<"s", ".", "j", "s", "?", "v">>},
                             {}, {[callee |-> "fetch", text |-> <<"/", "d">>]})]
      [] Url(netloc, path) = UrlX ->
           [content_type |-> TextHtml, content |-> Body({UrlHome, UrlO}, {}, {})]
      [] Url(netloc, path) = UrlD ->
           [content_type |-> TextHtml, content |-> EmptyBody]
      [] Url(netloc, path) = UrlO ->
           [content_type |-> TextHtml, content |-> Body({UrlX}, {}, {})]
      [] OTHER ->
           [content_type |-> TextPlain, content |-> Body({}, {}, {})]

\* session.get(url): the query and fragment do not select another page
Response(url) == Page(urlparse(url).netloc, urlparse(url).path)

\* the seeds of the runs: a canonical URL, a URL with a query, and a page
\* none of whose links is in scope (a.c does not end with xa.c)
StartUrls == {UrlHome, UrlP \o <<"?", "x">>, UrlX}

\* every URL string a run can hold
AllUrls == StartUrls \cup {UrlHome, UrlP, UrlD, UrlJs, UrlX, UrlO}

(***************************************************************************)
(* The crawl engine.                                                       *)
(***************************************************************************)
\* @retry(attempts=3, delay=1, backoff=2)
RetryAttempts == 3
RetryDelay == 1
RetryBackoff == 2

Workers == 1..num_workers

\* the exceptions the wrapper of retry catches (ClientConnectorError and
\* ClientResponseError are "response"), and a ClientError it does not catch
Retried == {"response", "timeout"}
Errors == Retried \cup {"disconnect"}
\* aiohttp.ClientError and its subclasses; asyncio.TimeoutError is none
ClientErrors == {"response", "disconnect"}

RECURSIVE Perms(_)
\* the orders in which "for link in links" can iterate the set
Perms(S) ==
    IF S = {} THEN {<<>>}
    ELSE UNION { { <<x>> \o p : p \in Perms(S \ {x}) } : x \in S }

Init ==
    /\ impl \in {"pkg", "main"}
    /\ start_url \in StartUrls
    /\ max_pages \in {-1} \cup (0..MaxPages)
    /\ num_workers \in 1..MaxWorkers
    /\ queue = <<start_url>>
    /\ unfinished = 1
    /\ visited = {}
    /\ js_links = {}
    /\ pages_crawled_count = 0
    /\ delay = RetryDelay
    /\ pc = [w \in 1..num_workers |-> "get"]
    /\ current_url = [w \in 1..num_workers |-> None]
    /\ attempt = [w \in 1..num_workers |-> 0]
    /\ waits = [w \in 1..num_workers |-> <<>>]
    /\ ret = [w \in 1..num_workers |-> "none"]
    /\ opc = "join"
    /\ fetchCalls = [u \in AllUrls |-> 0]
    /\ fetchedOK = {}
    /\ failures = 0

\* urlparse(url).netloc, computed once for every URL of the runs
netloc_of == [u \in AllUrls |-> urlparse(u).netloc]

\* base_netloc = urlparse(start_url).netloc
base_netloc == netloc_of[start_url]

\* the budget test left out
BudgetNeverReached == FALSE

\* the budget test passed once more than it should be
BudgetReachedLate == max_pages # -1 /\ pages_crawled_count > max_pages

\* max_pages != -1 and pages_crawled_count[0] >= max_pages
BudgetReached == max_pages # -1 /\ pages_crawled_count >= max_pages

\* the visited test left out
AlreadySeenNever(url) == FALSE

\* current_url in visited or current_url in js_links (main.py has no js_links)
AlreadySeen(url) == url \in visited \/ (impl = "pkg" /\ url \in js_links)

\* matchsubdomain(base_netloc, urlparse(url).netloc)
InScope(url) == matchsubdomain(base_netloc, netloc_of[url])

\* the three "continue" branches before the script test
Skipped(url) == AlreadySeen(url) \/ BudgetReached \/ ~InScope(url)

\* the script branch left out
IsScriptNever(url) == FALSE

\* current_url.endswith('.js'), a branch of url_extractor/crawler.py only
IsScript(url) == impl = "pkg" /\ EndsWith(url, JsSuffix)

\* the item acknowledged twice
task_done_twice(n) == n - 2

\* queue.task_done()
task_done(n) == n - 1

\* the delay left as it is
NextDelayConstant(d) == d

\* delay *= backoff
NextDelay(d) == d * RetryBackoff

UnchangedFetch == UNCHANGED <<delay, attempt, waits, ret, fetchCalls, fetchedOK, failures>>
UnchangedArgs == UNCHANGED <<impl, start_url, max_pages, num_workers>>

\* the worker dequeues a stop token and leaves its loop
WorkerStop(w) ==
    /\ pc[w] = "get"
    /\ queue # <<>>
    /\ Head(queue) = None
    /\ queue' = Tail(queue)
    /\ pc' = [pc EXCEPT ![w] = "done"]
    /\ unfinished' = IF impl = "pkg" THEN task_done(unfinished) ELSE unfinished
    /\ UNCHANGED <<visited, js_links, pages_crawled_count, current_url, opc>>
    /\ UnchangedFetch /\ UnchangedArgs

\* the worker dequeues a URL and drops it: seen, over budget or out of scope
WorkerSkip(w) ==
    /\ pc[w] = "get"
    /\ queue # <<>>
    /\ Head(queue) # None
    /\ Skipped(Head(queue))
    /\ queue' = Tail(queue)
    /\ unfinished' = task_done(unfinished)
    /\ UNCHANGED <<visited, js_links, pages_crawled_count, pc, current_url, opc>>
    /\ UnchangedFetch /\ UnchangedArgs

\* the worker dequeues a script URL and records it
WorkerScript(w) ==
    /\ pc[w] = "get"
    /\ queue # <<>>
    /\ Head(queue) # None
    /\ ~Skipped(Head(queue))
    /\ IsScript(Head(queue))
    /\ queue' = Tail(queue)
    /\ js_links' = js_links \cup {Head(queue)}
    /\ unfinished' = task_done(unfinished)
    /\ UNCHANGED <<visited, pages_crawled_count, pc, current_url, opc>>
    /\ UnchangedFetch /\ UnchangedArgs

\* the worker dequeues a URL, admits it and starts to fetch it
WorkerAdmit(w) ==
    /\ pc[w] = "get"
    /\ queue # <<>>
    /\ Head(queue) # None
    /\ ~Skipped(Head(queue))
    /\ ~IsScript(Head(queue))
    /\ queue' = Tail(queue)
    /\ visited' = visited \cup {Head(queue)}
    /\ pages_crawled_count' = pages_crawled_count + 1
    /\ current_url' = [current_url EXCEPT ![w] = Head(queue)]
    /\ pc' = [pc EXCEPT ![w] = "fetch"]
    /\ attempt' = [attempt EXCEPT ![w] = 0]
    /\ waits' = [waits EXCEPT ![w] = <<>>]
    /\ ret' = [ret EXCEPT ![w] = "none"]
    /\ fetchCalls' = [fetchCalls EXCEPT ![Head(queue)] = @ + 1]
    /\ UNCHANGED <<js_links, unfinished, delay, fetchedOK, failures, opc>>
    /\ UnchangedArgs

\* the test of one link in "for link in links"
Wanted(link) == ~AlreadySeen(link) /\ InScope(link)

\* every wanted link submitted, whatever the budget
SubmitAll(links, i, q) == q \o SelectSeq(SubSeq(links, i, Len(links)), Wanted)

RECURSIVE SubmitLoop(_, _, _)
\* "for link in links" with its break, over the iteration order links:
\* pkg tests the link and then the budget, main.py the budget and then the link
SubmitLoop(links, i, q) ==
    IF i > Len(links) THEN q
    ELSE IF impl = "pkg"
         THEN IF Wanted(links[i])
              THEN IF BudgetReached THEN q
                   ELSE SubmitLoop(links, i + 1, Append(q, links[i]))
              ELSE SubmitLoop(links, i + 1, q)
         ELSE IF BudgetReached THEN q
              ELSE IF Wanted(links[i])
                   THEN SubmitLoop(links, i + 1, Append(q, links[i]))
                   ELSE SubmitLoop(links, i + 1, q)

\* the links of a fetched page: none unless the body is non-empty and the
\* content type contains 'html'
links_if_html(variant, r, url) ==
    IF ~r.content.empty /\ Contains(r.content_type, Html)
    THEN extract_links_from_html(variant, r.content, url)
    ELSE {}

\* links_if_html, computed once for every implementation and URL
links_of ==
    [variant \in {"pkg", "main"} |->
        [u \in AllUrls |-> links_if_html(variant, Response(u), u)]]

LinksOf(url) == links_of[impl][url]

\* the request succeeds: extract, submit the children, acknowledge
FetchSuccess(w) ==
    /\ pc[w] = "fetch"
    /\ \E order \in Perms(LinksOf(current_url[w])) :
          queue' = SubmitLoop(order, 1, queue)
    /\ unfinished' = task_done(unfinished + (Len(queue') - Len(queue)))
    /\ ret' = [ret EXCEPT ![w] = "ok"]
    /\ fetchedOK' = fetchedOK \cup {current_url[w]}
    /\ pc' = [pc EXCEPT ![w] = "get"]
    /\ UNCHANGED <<visited, js_links, pages_crawled_count, current_url, delay,
                   attempt, waits, fetchCalls, failures, opc>>
    /\ UnchangedArgs

\* pkg: a request inside the retry loop fails with a caught exception:
\* the wrapper starts asyncio.sleep(delay)
FetchRetry(w, e) ==
    /\ impl = "pkg"
    /\ pc[w] = "fetch"
    /\ failures < MaxFailures
    /\ e \in Retried
    /\ attempt[w] < RetryAttempts
    /\ waits' = [waits EXCEPT ![w] = Append(@, delay)]
    /\ failures' = failures + 1
    /\ pc' = [pc EXCEPT ![w] = "sleep"]
    /\ UNCHANGED <<queue, unfinished, visited, js_links, pages_crawled_count,
                   current_url, delay, attempt, ret, fetchCalls, fetchedOK, opc>>
    /\ UnchangedArgs

\* pkg: the sleep ends: delay *= backoff, next attempt
SleepDone(w) ==
    /\ pc[w] = "sleep"
    /\ delay' = NextDelay(delay)
    /\ attempt' = [attempt EXCEPT ![w] = @ + 1]
    /\ pc' = [pc EXCEPT ![w] = "fetch"]
    /\ UNCHANGED <<queue, unfinished, visited, js_links, pages_crawled_count,
                   current_url, waits, ret, fetchCalls, fetchedOK,
                   failures, opc>>
    /\ UnchangedArgs

\* whether the exception e of the request leaves get_page_content_async
Escapes(w, e) ==
    IF impl = "pkg"
    THEN e \notin Retried \/ attempt[w] >= RetryAttempts
    ELSE e \notin ClientErrors

\* the exception leaves the fetch and the worker: pkg acknowledges in its
\* finally clause, main.py does not; the worker task ends
FetchRaise(w, e) ==
    /\ pc[w] = "fetch"
    /\ failures < MaxFailures
    /\ Escapes(w, e)
    /\ ret' = [ret EXCEPT ![w] = "raised"]
    /\ failures' = failures + 1
    /\ unfinished' = IF impl = "pkg" THEN task_done(unfinished) ELSE unfinished
    /\ pc' = [pc EXCEPT ![w] = "crashed"]
    /\ UNCHANGED <<queue, visited, js_links, pages_crawled_count, current_url,
                   delay, attempt, waits, fetchCalls, fetchedOK, opc>>
    /\ UnchangedArgs

\* main.py: a ClientError is caught, the fetch returns (None, None), no
\* links are extracted, the item is acknowledged
FetchNone(w, e) ==
    /\ impl = "main"
    /\ pc[w] = "fetch"
    /\ failures < MaxFailures
    /\ e \in ClientErrors
    /\ ret' = [ret EXCEPT ![w] = "None"]
    /\ failures' = failures + 1
    /\ unfinished' = task_done(unfinished)
    /\ pc' = [pc EXCEPT ![w] = "get"]
    /\ UNCHANGED <<queue, visited, js_links, pages_crawled_count, current_url,
                   delay, attempt, waits, fetchCalls, fetchedOK, opc>>
    /\ UnchangedArgs

\* await queue.join() returns; one None per worker is put
JoinReturns ==
    /\ opc = "join"
    /\ unfinished = 0
    /\ queue' = queue \o [i \in 1..num_workers |-> None]
    /\ unfinished' = unfinished + num_workers
    /\ opc' = "gather"
    /\ UNCHANGED <<visited, js_links, pages_crawled_count, pc, current_url>>
    /\ UnchangedFetch /\ UnchangedArgs

\* await asyncio.gather(*tasks, return_exceptions=True) returns
GatherReturns ==
    /\ opc = "gather"
    /\ \A w \in Workers : pc[w] \in {"done", "crashed"}
    /\ opc' = "done"
    /\ UNCHANGED <<queue, unfinished, visited, js_links, pages_crawled_count,
                   pc, current_url>>
    /\ UnchangedFetch /\ UnchangedArgs

Next ==
    \/ \E w \in Workers : WorkerStop(w)
    \/ \E w \in Workers : WorkerSkip(w)
    \/ \E w \in Workers : WorkerScript(w)
    \/ \E w \in Workers : WorkerAdmit(w)
    \/ \E w \in Workers : FetchSuccess(w)
    \/ \E w \in Workers : \E e \in Errors : FetchRetry(w, e)
    \/ \E w \in Workers : SleepDone(w)
    \/ \E w \in Workers : \E e \in Errors : FetchRaise(w, e)
    \/ \E w \in Workers : \E e \in Errors : FetchNone(w, e)
    \/ JoinReturns
    \/ GatherReturns

Spec == Init /\ [][Next]_vars

\* the event loop runs a task that is ready: the run does not stop while
\* a step is possible
FairSpec == Init /\ [][Next]_vars /\ WF_vars(Next)

(***************************************************************************)
(* Properties.                                                             *)
(***************************************************************************)
Canonical(url) == canonical(urlparse(url))

\* the URLs whose fetch/extract pipeline has been invoked
Fetched == { u \in AllUrls : fetchCalls[u] > 0 }

\* C1: no duplicate crawling: the fetch/extract pipeline is invoked at most
\* once per canonical URL (scheme://host/path without query and fragment),
\* and no canonical URL appears twice among the visited URLs; the seed,
\* which is submitted as given, included.
C1NoDuplicateCrawling ==
    /\ \A u \in AllUrls : fetchCalls[u] <= 1
    /\ \A u, v \in Fetched : Canonical(u) = Canonical(v) => u = v
    /\ \A u, v \in visited : Canonical(u) = Canonical(v) => u = v

\* C2: with a page budget N # -1 and W workers, the crawled-page counter at
\* completion of the run is at most N + (W - 1).
C2BudgetUpperBound ==
    (opc = "done" /\ max_pages # -1)
        => pages_crawled_count <= max_pages + (num_workers - 1)

\* a completed run of the largest worker pool in which the budget was
\* reached and left a reachable page uncrawled
C2Witness ==
    /\ opc = "done"
    /\ start_url = UrlHome
    /\ num_workers = MaxWorkers
    /\ max_pages = 2
    /\ pages_crawled_count = max_pages
    /\ UrlHome \in fetchedOK
    /\ \E u \in {UrlP, UrlX} : u \notin visited

\* C3: a link is submitted to the queue only if its host ends with the base
\* host, and no URL whose host does not end with the base host is ever in
\* the visited set.
C3ScopeContainment ==
    /\ \A i \in 1..Len(queue) :
          queue[i] # None => EndsWith(urlparse(queue[i]).netloc, urlparse(start_url).netloc)
    /\ \A u \in visited :
          EndsWith(urlparse(u).netloc, urlparse(start_url).netloc)

\* the home page, which links to the foreign host o.d and to xa.c, has been
\* fetched and its children submitted: xa.c was crawled, o.d was not
C3Witness ==
    /\ start_url = UrlHome
    /\ UrlHome \in fetchedOK
    /\ UrlX \in visited
    /\ UrlO \in LinksOf(UrlHome)
    /\ UrlO \notin visited

\* C4: termination: under fair scheduling crawl_async eventually completes,
\* whether the fetches succeed, fail after the retries or time out.
C4Termination == <>(opc = "done")

\* C5: failure containment in url_extractor: a fetch failure never ends a
\* worker's loop, so no worker task ever ends by an exception, and all
\* num_workers workers are alive until the stop tokens are issued.
C5FailureContainment ==
    impl = "pkg"
        => /\ \A w \in Workers : pc[w] # "crashed"
           /\ opc = "join" => \A w \in Workers : pc[w] \in {"get", "fetch", "sleep"}

\* C6: script resources are never crawled as pages: visited and js_links
\* are disjoint, no URL ending in '.js' is in visited, and the fetcher is
\* never called on a URL ending in '.js'.
C6ScriptsNeverCrawled ==
    /\ visited \cap js_links = {}
    /\ \A u \in visited : ~EndsWith(u, JsSuffix)
    /\ \A u \in AllUrls : EndsWith(u, JsSuffix) => fetchCalls[u] = 0

\* the in-scope URLs ending in '.js' that the successfully fetched markup
\* pages link to (anchor href or script src)
LinkedScripts ==
    { l \in UNION { LinksOf(p) : p \in fetchedOK } :
        InScope(l) /\ EndsWith(l, JsSuffix) }

\* C7 as claimed, for url_extractor/crawler.py: when the run completes,
\* every in-scope '.js' URL linked from a successfully fetched markup page
\* is in js_links, whatever the page budget.
C7ScriptClassificationTotal ==
    (impl = "pkg" /\ opc = "done") => LinkedScripts \subseteq js_links

\* C7 as amended: the same, for runs with the unbounded budget (-1).
C7ScriptClassificationUnbounded ==
    (impl = "pkg" /\ opc = "done" /\ max_pages = -1) => LinkedScripts \subseteq js_links

\* a completed unbounded run that fetched the home page and recorded the
\* script its script tag names
C7Witness ==
    /\ impl = "pkg"
    /\ opc = "done"
    /\ max_pages = -1
    /\ UrlHome \in fetchedOK
    /\ UrlJs \in LinkedScripts
    /\ UrlJs \in js_links

Crawlable(url) == InScope(url) /\ ~EndsWith(url, JsSuffix)

RECURSIVE ReachFrom(_)
\* the closure of S under the extracted, in-scope, non-script links
ReachFrom(S) ==
    IF { l \in UNION { LinksOf(p) : p \in S } : Crawlable(l) } \subseteq S THEN S
    ELSE ReachFrom(S \cup { l \in UNION { LinksOf(p) : p \in S } : Crawlable(l) })

\* the in-scope non-script pages reachable from the seed
Reachable == ReachFrom({ u \in {start_url} : Crawlable(u) })

Min(a, b) == IF a <= b THEN a ELSE b

\* C8: in a completed run in which every fetch succeeded, the crawled-page
\* counter is at least min(N, R), R the number of in-scope non-script pages
\* reachable from the seed; with the unbounded budget the visited set is
\* exactly that reachable set.
C8BudgetLowerBound ==
    (opc = "done" /\ failures = 0)
        => IF max_pages = -1
           THEN visited = Reachable
           ELSE pages_crawled_count >= Min(max_pages, Cardinality(Reachable))

\* C9: from a seed page without in-scope links, with the unbounded budget,
\* the run terminates, with the counter at 1 and no script resource.
C9SinglePageTermination ==
    (start_url = UrlX /\ max_pages = -1)
        => <>(opc = "done" /\ pages_crawled_count = 1 /\ js_links = {})

\* C10: a fetch whose underlying request fails twice with a retried error
\* and succeeds on the third attempt returns the successful result, after
\* exactly two waits, the second at least double the first.
C10RetryWithBackoff ==
    \A w \in Workers :
        (impl = "pkg" /\ pc[w] = "get" /\ attempt[w] = 2
         /\ current_url[w] \in fetchedOK)
            => /\ ret[w] = "ok"
               /\ Len(waits[w]) = 2
               /\ waits[w][2] >= RetryBackoff * waits[w][1]

\* a worker whose fetch failed twice and then succeeded, in a run in which
\* another fetch had failed before, so that the waits were not 1 and 2
C10Witness ==
    \E w \in Workers :
        /\ impl = "pkg"
        /\ pc[w] = "get"
        /\ attempt[w] = 2
        /\ current_url[w] \in fetchedOK
        /\ ret[w] = "ok"
        /\ Len(waits[w]) = 2
        /\ waits[w][1] > RetryDelay

(***************************************************************************)
(* Extraction.                                                             *)
(***************************************************************************)
\* one anchor href="/a", one anchor href="https://other.example.com/b" and
\* one inline script containing fetch("/api/data")
FixtureBase ==
    <<"h", "t", "t", "p", "s", ":", "/", "/", "s", "i", "t", "e", ".", "e", "x", "a", "m", "p", "l", "e", ".", "c", "o", "m", "/", "p", "a", "g", "e">>
FixtureOther ==
    <<"h", "t", "t", "p", "s", ":", "/", "/", "o", "t", "h", "e", "r", ".", "e", "x", "a", "m", "p", "l", "e", ".", "c", "o", "m", "/", "b">>
FixtureDoc ==
    Body({<<"/", "a">>, FixtureOther}, {},
         {[callee |-> "fetch", text |-> <<"/", "a", "p", "i", "/", "d", "a", "t", "a">>]})
FixtureLinks ==
    { <<"h", "t", "t", "p", "s", ":", "/", "/", "s", "i", "t", "e", ".", "e", "x", "a", "m", "p", "l", "e", ".", "c", "o", "m", "/", "a">>,
      FixtureOther,
      <<"h", "t", "t", "p", "s", ":", "/", "/", "s", "i", "t", "e", ".", "e", "x", "a", "m", "p", "l", "e", ".", "c", "o", "m", "/", "a", "p", "i", "/", "d", "a", "t", "a">> }

\* the resolved, query/fragment-free URLs of every anchor href, every script
\* src and every URL of every inline script body
AllLinks(html_content, base_url) ==
    { absolute_link(base_url, h) : h \in html_content.a_href }
    \cup { absolute_link(base_url, s) : s \in html_content.script_src }
    \cup extract_links_from_script(html_content.script_text, base_url)

IsMarkup(r) == ~r.content.empty /\ Contains(r.content_type, Html)

\* C11: extraction correctness: for a markup document the extractor returns
\* exactly the resolved query/fragment-free URLs of every anchor href, every
\* script src and every URL of every inline script body; for the document
\* with the anchors "/a" and "https://other.example.com/b" and the inline
\* script fetch("/api/data") against https://site.example.com/page it returns
\* exactly the three resolved URLs.
C11ExtractionCorrectness ==
    /\ \A u \in fetchedOK :
          IsMarkup(Response(u)) => LinksOf(u) = AllLinks(Response(u).content, u)
    /\ extract_links_from_html(impl, FixtureDoc, FixtureBase) = FixtureLinks

(***************************************************************************)
(* Acknowledgement, drain and retirement.                                  *)
(***************************************************************************)
\* the workers between the dequeue of a URL and the end of its processing
InFlight == { w \in Workers : pc[w] \in {"fetch", "sleep"} }

\* the stop tokens dequeued without task_done(): main.py breaks before it
StopsNotAcknowledged ==
    IF impl = "main" THEN { w \in Workers : pc[w] = "done" } ELSE {}

\* C12: acknowledge exactly once: every dequeued URL item is acknowledged
\* exactly once on every path of the worker loop, a fetch failure or timeout
\* raised as an exception included: the items submitted and not yet
\* acknowledged are those still queued and those a worker is processing,
\* and the acknowledgements never exceed the submissions.
C12AcknowledgeExactlyOnce ==
    /\ unfinished >= 0
    /\ unfinished = Len(queue) + Cardinality(InFlight)
                    + Cardinality(StopsNotAcknowledged)

\* the positions of the URL items of a queue
UrlItems(q) == { i \in 1..Len(q) : q[i] # None }

\* C13: the drain signal is exact: once queue.join() has returned the queue
\* holds no URL item and no worker is between the dequeue of a URL and its
\* acknowledgement; the outstanding-work counter is never zero while a
\* worker is mid-fetch or mid-submission; no stop token is enqueued before
\* the drained condition has been observed.
C13DrainSignalExact ==
    /\ opc # "join" => (UrlItems(queue) = {} /\ InFlight = {})
    /\ InFlight # {} => unfinished > 0
    /\ opc = "join" => UrlItems(queue) = 1..Len(queue)

\* queue.join() has just returned from a crawl of two workers that fetched
\* at least two pages: only the stop tokens are queued
C13Witness ==
    /\ opc = "gather"
    /\ num_workers = 2
    /\ Cardinality(fetchedOK) >= 2
    /\ Len(queue) = num_workers
    /\ \A w \in Workers : pc[w] = "get"

\* C14: clean pool retirement: a worker leaves its loop only by dequeuing a
\* stop token; when crawl_async completes each of the workers has dequeued
\* one stop token and the queue is empty.
C14CleanPoolRetirement ==
    /\ \A w \in Workers : pc[w] \in {"get", "fetch", "sleep", "done"}
    /\ opc = "done" => (queue = <<>> /\ \A w \in Workers : pc[w] = "done")

(***************************************************************************)
(* Budget.                                                                 *)
(***************************************************************************)
\* C15: atomic admission: the test of the visited set and of the budget and
\* the following insert and increment are one step, so that with a bounded
\* budget N the crawled-page counter is at most N in every reachable state,
\* for any number of workers.
C15AtomicAdmission ==
    max_pages # -1 => pages_crawled_count <= max_pages

\* two workers and the budget 2: one worker is fetching the page that
\* reached the budget while the other is about to dequeue a page that is in
\* scope and not yet visited
C15Witness ==
    /\ num_workers = 2
    /\ max_pages = 2
    /\ pages_crawled_count = max_pages
    /\ \E w \in Workers : pc[w] = "fetch"
    /\ \E w \in Workers : pc[w] = "get"
    /\ queue # <<>>
    /\ Head(queue) # None
    /\ Head(queue) \notin visited
    /\ InScope(Head(queue))
    /\ ~EndsWith(Head(queue), JsSuffix)

\* C16: child submission respects the budget: with a bounded budget N no
\* step submits a discovered URL to the queue from a state in which the
\* crawled-page counter is at least N.
C16ChildSubmissionRespectsBudget ==
    [][(max_pages # -1 /\ pages_crawled_count >= max_pages)
          => Cardinality(UrlItems(queue')) <= Cardinality(UrlItems(queue))]_vars

\* main.py with the budget 2: the page /p was fetched when the budget was
\* reached, and its child /d, in scope and not visited, was not submitted
C16Witness ==
    /\ impl = "main"
    /\ start_url = UrlHome
    /\ max_pages = 2
    /\ pages_crawled_count = 2
    /\ visited = {UrlHome, UrlP}
    /\ UrlP \in fetchedOK
    /\ UrlD \in LinksOf(UrlP)
    /\ Wanted(UrlD)
    /\ \A i \in 1..Len(queue) : queue[i] # UrlD

(***************************************************************************)
(* Failed fetches and retries.                                             *)
(***************************************************************************)
\* C17: effect of a failed fetch: in the step in which the fetch of an
\* admitted URL fails for good, the URL stays in the visited set and in the
\* counter, no child is submitted, the item is acknowledged, and visited,
\* js_links and the counter are unchanged.
C17EffectOfFailedFetch ==
    [][\A w \in Workers :
          (pc[w] = "fetch" /\ ret'[w] \in {"raised", "None"})
              => /\ current_url[w] \in visited'
                 /\ visited' = visited
                 /\ js_links' = js_links
                 /\ pages_crawled_count' = pages_crawled_count
                 /\ queue' = queue
                 /\ unfinished' = unfinished - 1]_vars

\* C18: the backoff delay is per fetch: in every call of the retried fetch
\* the wait before the k-th retry is base * factor^(k-1) (1, 2, 4, ...),
\* whatever failures earlier calls have had.
C18BackoffPerFetch ==
    \A w \in Workers : \A k \in 1..Len(waits[w]) :
        waits[w][k] = RetryDelay * RetryBackoff ^ (k - 1)

\* C19: attempt bound: a retried fetch makes at most the configured number
\* of underlying requests (3) and does not wait after the last of them.
C19AttemptBound ==
    \A w \in Workers :
        /\ attempt[w] + 1 <= RetryAttempts
        /\ Len(waits[w]) <= RetryAttempts - 1

(***************************************************************************)
(* Accounting.                                                             *)
(***************************************************************************)
\* C20: accounting: in every reachable state the crawled-page counter is the
\* number of URLs in the visited set; the visited set only grows and the
\* counter never decreases, an admission adding exactly one new URL and
\* exactly one to the counter.
C20AccountingInvariant ==
    /\ [](pages_crawled_count = Cardinality(visited))
    /\ [][/\ visited \subseteq visited'
          /\ pages_crawled_count' >= pages_crawled_count
          /\ (visited' # visited \/ pages_crawled_count' # pages_crawled_count)
                => /\ Cardinality(visited' \ visited) = 1
                   /\ pages_crawled_count' = pages_crawled_count + 1]_vars

\* two workers have admitted three pages, the seed and two discovered ones
C20Witness ==
    /\ num_workers = 2
    /\ pages_crawled_count = 3
    /\ Cardinality(visited) = 3
    /\ start_url \in visited
    /\ Cardinality(fetchedOK) >= 1

====
